---- MODULE Spec2Model ----
(***************************************************************************)
(* Model of the submission runner (src/submission_runner.py): the tuning   *)
(* orchestrator score_submission_on_workload and the training control      *)
(* loop train_once, with the submission's and the workload's callbacks as  *)
(* nondeterministic environment steps that take wall-clock time.           *)
(* Times are integers (clock ticks); metrics are integers.                 *)
(***************************************************************************)
EXTENDS Integers, Sequences, FiniteSets, TLC

\* ---------------------------------------------------------------- bounds
MaxTrials == 2       \* largest num_tuning_trials explored
MaxSteps == 3        \* cap on the steps taken in one run, over all trials
MaxDur == 1          \* longest duration of one callback, in ticks
MaxBudget == 2       \* largest max_allowed_runtime_sec explored
MaxEvalPeriod == 2   \* largest eval_period_time_sec explored
Epoch == 4           \* a wall-clock reading far from zero
MaxElapsed == 5      \* cap on the wall-clock time that passes in one run
MaxImports == 3      \* cap on the number of _import_workload calls
MaxOps == 4          \* cap on the number of direct calls on a Workload

\* ------------------------------------------------------- program constants
\* the goal threshold of the workload, in metric units
target_value == 1

None == "None"
NoScore == "NoScore"

VARIABLES
  \* arguments of score_submission_on_workload and workload configuration
  tuning_ruleset, tuning_search_space_arg, num_tuning_trials,
  max_allowed_runtime_sec, eval_period_time_sec,
  \* score_submission_on_workload
  pc, tuning_search_space, hi, all_timings, all_metrics, score, exception,
  \* train_once
  hyperparameters, rng, goal_reached, is_time_remaining, last_eval_time,
  accumulated_submission_time, eval_results, global_step, training_complete,
  start_time, current_time,
  \* environment
  clock,
  \* observers (history of the run, never read by the program)
  train_once_calls, urandom_draws, submission_elapsed, eval_elapsed,
  update_calls, signal_call, flipped, trial_log, total_steps, elapsed,
  \* more arguments: the submission's batch size, the device count and,
  \* where train_once is re-run with one root seed, that seed
  workload_name, batch_size, local_device_count, root_seed,
  \* the submission_path argument and the flag FLAGS.submission_path, each a
  \* sequence of characters
  submission_path, FLAGS_submission_path,
  \* observer: the module name that importlib.import_module was given
  imported_submission,
  \* the process-wide registry and the history of _import_workload calls
  WORKLOADS, import_log,
  \* the Workload instance: its shape caches, how often each was written,
  \* and the history of the operations on it
  _param_shapes, _param_types, cache_writes, workload_log,
  \* the evaluation iterators that the workload instance keeps, by split
  _eval_iters,
  \* train_once: the input queue, the seeds of line 108 and of lines 132-134
  input_queue, sub_rngs, step_rngs,
  \* observer: the number of eval_model calls of the current train_once
  eval_calls,
  \* train_once: the training state it threads through the callbacks
  optimizer_state, model_params, model_state,
  \* observer: the callbacks called in the current train_once, in order, each
  \* with the values of global_step and of the training state at the call
  call_log

args == <<tuning_ruleset, tuning_search_space_arg, num_tuning_trials,
          max_allowed_runtime_sec, eval_period_time_sec, workload_name,
          batch_size, local_device_count, root_seed, submission_path,
          FLAGS_submission_path>>
orch == <<pc, tuning_search_space, hi, all_timings, all_metrics, score,
          exception>>
loop == <<hyperparameters, rng, goal_reached, is_time_remaining,
          last_eval_time, accumulated_submission_time, eval_results,
          global_step, training_complete, start_time, current_time>>
obs == <<train_once_calls, urandom_draws, submission_elapsed, eval_elapsed,
         update_calls, signal_call, flipped, trial_log, total_steps,
         elapsed>>
registry == <<WORKLOADS, import_log>>
wl == <<_param_shapes, _param_types, cache_writes, workload_log, _eval_iters>>
seedv == <<sub_rngs, step_rngs>>
trained == <<optimizer_state, model_params, model_state>>
vars == <<args, orch, loop, clock, obs, registry, wl, input_queue, seedv,
          eval_calls, trained, call_log, imported_submission>>

\* a callback returns at once or takes MaxDur ticks
Durations == {0, MaxDur}
\* eval_model returns a metric at the threshold or just above it
Metrics == {target_value, target_value + 1}
Seeds == 0..1

\* ------------------------------------------------------------ pure helpers

\* halton.generate_search(space, n): exactly n settings, in generation order
generate_search(n) == [i \in 1..n |-> i]

\* jax.random.PRNGKey(seed): a two-word key holding the seed
PRNGKey(seed) == <<0, seed>>

\* mutant: the loop ignores the goal
LoopConditionNoGoal(time_remaining, reached, complete) ==
  time_remaining /\ ~complete

\* mutant: the loop ignores the completion flag
LoopConditionNoComplete(time_remaining, reached, complete) ==
  time_remaining /\ ~reached

\* the while condition of train_once
LoopCondition(time_remaining, reached, complete) ==
  time_remaining /\ ~reached /\ ~complete

\* accumulated_submission_time += current_time - start_time
AccumulateTime(acc, cur, start) == acc + (cur - start)

\* mutant: time remains while the budget is not exceeded
TimeRemainingInclusive(acc, budget) == acc <= budget

\* is_time_remaining = accumulated_submission_time < max_allowed_runtime_sec
TimeRemaining(acc, budget) == acc < budget

\* jax.random.split(key, num): num new keys, each determined by the key
\* and its index
split(key, num) == [i \in 1..num |-> <<key, "split", num, i>>]

\* jax.random.fold_in(key, data): a new key determined by the key and the data
fold_in(key, data) == <<key, "fold_in", data>>

\* line 108: the four sub-seeds; the local rng is rebound to the fourth
SubSeeds(key) ==
  [data_rng |-> split(key, 4)[1], opt_init_rng |-> split(key, 4)[2],
   model_init_rng |-> split(key, 4)[3], rng |-> split(key, 4)[4]]

\* mutant: every step splits the loop seed itself
StepSeedsNoFold(loop_rng, step) ==
  [step_rng |-> loop_rng,
   data_select_rng |-> split(loop_rng, 4)[1],
   preprocess_rng |-> split(loop_rng, 4)[2],
   update_rng |-> split(loop_rng, 4)[3],
   eval_rng |-> split(loop_rng, 4)[4]]

\* lines 132-134: the seeds of one step
StepSeeds(loop_rng, step) ==
  [step_rng |-> fold_in(loop_rng, step),
   data_select_rng |-> split(fold_in(loop_rng, step), 4)[1],
   preprocess_rng |-> split(fold_in(loop_rng, step), 4)[2],
   update_rng |-> split(fold_in(loop_rng, step), 4)[3],
   eval_rng |-> split(fold_in(loop_rng, step), 4)[4]]

\* mutant: an evaluation is due only when more than the period has passed
EvalDueStrict(cur, last, period, complete) == (cur - last > period) \/ complete

\* mutant: the completion flag does not make an evaluation due
EvalDueNoComplete(cur, last, period, complete) == cur - last >= period

\* eligibility for an untimed eval
EvalDue(cur, last, period, complete) == (cur - last >= period) \/ complete

\* mutant: only the latest evaluation is kept
RecordEvalLatestOnly(results, step, result) == << <<step, result>> >>

\* eval_results.append((global_step, latest_eval_result))
RecordEval(results, step, result) == Append(results, <<step, result>>)

\* workload.has_reached_goal
has_reached_goal(result) == result > target_value

\* Python's min() over a non-empty list: the first smallest element
RECURSIVE MinFrom(_, _, _)
MinFrom(s, i, best) ==
  IF i > Len(s) THEN best
  ELSE MinFrom(s, i + 1, IF s[i] < best THEN s[i] ELSE best)

\* mutant: the first trial's time instead of the smallest
minFirst(s) == s[1]

min(s) == MinFrom(s, 2, s[1])

\* the shapes of the model that init_model_fn builds
ParamShapes == "shapes of DlrmSmall"

\* param_utils.jax_param_types(shapes): the types that belong to the shapes
jax_param_types(shapes) == "types of " \o shapes

\* mutant: the property returns the cache without looking at it
param_shapesUnchecked(shapes) == shapes

\* the property param_shapes: what reading it gives
param_shapes(shapes) == IF shapes = None THEN "ValueError" ELSE shapes

\* the property model_params_types: what reading it gives
model_params_types(shapes, types) ==
  IF shapes = None THEN "ValueError"
  ELSE IF types = None THEN jax_param_types(shapes) ELSE types

\* mutant: every read of model_params_types computes and stores the types
WritesTypesAlways(shapes, types) == shapes # None

\* model_params_types stores the types when the shapes are there and the
\* type cache is empty
WritesTypes(shapes, types) == shapes # None /\ types = None

\* two submission files, as the characters of their paths
PathA == <<"a", "/", "s", ".", "p", "y">>
PathB == <<"b", "/", "s", ".", "p", "y">>

\* path[:-3].replace('/', '.'): drop the last three characters, then turn
\* every separator into a dot
ModulePath(path) ==
  [i \in 1..(IF Len(path) > 3 THEN Len(path) - 3 ELSE 0) |->
     IF path[i] = "/" THEN "." ELSE path[i]]

\* the path that score_submission_on_workload converts and imports: the
\* flag, not its submission_path argument
ImportedPath(argument, flag) == flag

\* a local of train_once that has not been assigned
Unbound == <<"unbound", 0>>

\* the k-th value of one of the three parts of the training state: 0 comes
\* from the init functions, k >= 1 from the k-th call of update_params
Value(part, k) == <<part, k>>

\* optimizer_state, model_params and model_state as the k-th call of
\* update_params returns them
ReturnedTriple(k) ==
  [optimizer_state |-> Value("optimizer_state", k),
   model_params |-> Value("model_params", k),
   model_state |-> Value("model_state", k)]

\* mutant: init_optimizer_state is called before init_model_fn
SetupOrderOptimizerFirst ==
  <<"build_input_queue", "init_optimizer_state", "init_model_fn">>

\* the three calls of train_once's workload setup, in the order of the code
SetupOrder == <<"build_input_queue", "init_model_fn", "init_optimizer_state">>

\* ------------------------------------------------------------------- Init

\* the keys that main registers
RegistryKeys == {"mnist_pytorch", "mnist_jax"}

\* the keys that _import_workload is called with: main's and one more
ImportKeys == RegistryKeys \cup {"cifar"}

\* a fresh Workload instance, before any call on it
FreshWorkload ==
  /\ _param_shapes = None
  /\ _param_types = None
  /\ cache_writes = [shapes |-> 0, types |-> 0]
  /\ workload_log = <<>>
  /\ _eval_iters = <<>>

\* train_once has not run yet
NoTrial ==
  /\ input_queue = None
  /\ sub_rngs = None
  /\ step_rngs = None
  /\ eval_calls = 0
  /\ optimizer_state = Unbound
  /\ model_params = Unbound
  /\ model_state = Unbound
  /\ call_log = <<>>

\* score_submission_on_workload has not been called yet
NotStarted ==
  /\ NoTrial
  /\ imported_submission = <<>>
  /\ tuning_search_space = <<>>
  /\ hi = 0
  /\ all_timings = <<>>
  /\ all_metrics = <<>>
  /\ score = NoScore
  /\ exception = None
  /\ hyperparameters = None
  /\ rng = None
  /\ goal_reached = FALSE
  /\ is_time_remaining = TRUE
  /\ last_eval_time = 0
  /\ accumulated_submission_time = 0
  /\ eval_results = <<>>
  /\ global_step = 0
  /\ training_complete = FALSE
  /\ start_time = 0
  /\ current_time = 0
  /\ train_once_calls = <<>>
  /\ urandom_draws = 0
  /\ submission_elapsed = 0
  /\ eval_elapsed = 0
  /\ update_calls = 0
  /\ signal_call = 0
  /\ flipped = FALSE
  /\ trial_log = <<>>
  /\ total_steps = 0
  /\ elapsed = 0

\* the instance that the n-th call of _import_workload registers
Instance(key, n) == [registered_as |-> key, id |-> n]

\* score_submission_on_workload is called after main has registered both
\* workloads, with the name of one of them or with another name
Init ==
  /\ submission_path = PathA
  /\ FLAGS_submission_path = PathA
  /\ workload_name \in {"mnist_jax", "imagenet"}
  /\ batch_size \in {2, 3}
  /\ local_device_count = 2
  /\ root_seed = None
  /\ WORKLOADS = [k \in RegistryKeys |->
                    Instance(k, IF k = "mnist_pytorch" THEN 1 ELSE 2)]
  /\ import_log = <<>>
  /\ FreshWorkload
  /\ NotStarted
  /\ tuning_ruleset \in {"external", "self"}
  /\ tuning_search_space_arg \in {None, "space.json"}
  /\ num_tuning_trials \in 0..MaxTrials
  /\ max_allowed_runtime_sec \in {0, MaxBudget}
  /\ eval_period_time_sec \in {0, MaxEvalPeriod}
  /\ clock \in {0, Epoch}
  /\ pc = "start"

\* --------------------------------------- score_submission_on_workload

\* the values of train_once's locals before its bookkeeping has run
NoFrame ==
  /\ hyperparameters' = None
  /\ rng' = None
  /\ goal_reached' = FALSE
  /\ is_time_remaining' = TRUE
  /\ last_eval_time' = 0
  /\ accumulated_submission_time' = 0
  /\ eval_results' = <<>>
  /\ global_step' = 0
  /\ training_complete' = FALSE
  /\ start_time' = 0
  /\ current_time' = 0
  /\ input_queue' = None
  /\ sub_rngs' = None
  /\ step_rngs' = None
  /\ optimizer_state' = Unbound
  /\ model_params' = Unbound
  /\ model_state' = Unbound
  /\ call_log' = <<>>

\* the exceptions that stand for a failure of submission code
SubmissionErrors ==
  {"InitOptimizerStateError", "DataSelectionError", "UpdateParamsError"}

\* both frames are unwound: their locals are gone, no score is returned
Unwind(e) ==
  /\ pc' = "raised"
  /\ exception' = e
  /\ score' = NoScore
  /\ tuning_search_space' = <<>>
  /\ hi' = 0
  /\ all_timings' = <<>>
  /\ all_metrics' = <<>>
  /\ NoFrame

\* mutant: the for loop catches a trial's exception and goes on to the next
\* hyperparameter setting
PropagateSkipTrial(e) ==
  IF e \in SubmissionErrors
    THEN /\ pc' = "for"
         /\ exception' = e
         /\ hi' = hi + 1
         /\ UNCHANGED <<score, tuning_search_space, all_timings, all_metrics,
                        loop, input_queue, seedv, trained, call_log>>
    ELSE Unwind(e)

\* an exception e that neither train_once nor score_submission_on_workload
\* catches reaches the caller
Propagate(e) == Unwind(e)

\* workload = WORKLOADS[workload_name] with a name that is not registered
UnknownWorkload ==
  /\ pc = "start"
  /\ workload_name \notin DOMAIN WORKLOADS
  /\ Propagate("KeyError")
  /\ UNCHANGED <<args, clock, obs>>
  /\ UNCHANGED <<registry, wl, eval_calls>>
  /\ imported_submission' =
       ModulePath(ImportedPath(submission_path, FLAGS_submission_path))

\* mutant: without a search space the runner goes on with a default one
ExternalDefaultSearchSpace ==
  /\ pc = "start"
  /\ workload_name \in DOMAIN WORKLOADS
  /\ tuning_ruleset = "external"
  /\ tuning_search_space_arg = None
  /\ tuning_search_space' = generate_search(num_tuning_trials)
  /\ all_timings' = <<>>
  /\ all_metrics' = <<>>
  /\ hi' = 0
  /\ pc' = "for"
  /\ UNCHANGED <<args, score, exception, loop, clock, obs>>
  /\ UNCHANGED <<registry, wl, input_queue, seedv, eval_calls,
                 trained, call_log>>
  /\ imported_submission' =
       ModulePath(ImportedPath(submission_path, FLAGS_submission_path))

\* every call of score_submission_on_workload starts by importing the
\* submission module (lines 192-198)

\* external ruleset without a search space: ValueError
ExternalNoSearchSpace ==
  /\ pc = "start"
  /\ workload_name \in DOMAIN WORKLOADS
  /\ tuning_ruleset = "external"
  /\ tuning_search_space_arg = None
  /\ Propagate("ValueError")
  /\ UNCHANGED <<args, clock, obs>>
  /\ UNCHANGED <<registry, wl, eval_calls>>
  /\ imported_submission' =
       ModulePath(ImportedPath(submission_path, FLAGS_submission_path))

\* external ruleset: load the search space and generate the settings
ExternalSetup ==
  /\ pc = "start"
  /\ workload_name \in DOMAIN WORKLOADS
  /\ tuning_ruleset = "external"
  /\ tuning_search_space_arg # None
  /\ tuning_search_space' = generate_search(num_tuning_trials)
  /\ all_timings' = <<>>
  /\ all_metrics' = <<>>
  /\ hi' = 0
  /\ pc' = "for"
  /\ UNCHANGED <<args, score, exception, loop, clock, obs>>
  /\ UNCHANGED <<registry, wl, input_queue, seedv, eval_calls,
                 trained, call_log>>
  /\ imported_submission' =
       ModulePath(ImportedPath(submission_path, FLAGS_submission_path))

\* self-tuning ruleset: the arguments of the train_once call are evaluated;
\* hyperparameters and rng are locals that were never assigned
SelfTuningTrial ==
  /\ pc = "start"
  /\ workload_name \in DOMAIN WORKLOADS
  /\ tuning_ruleset # "external"
  /\ Propagate("UnboundLocalError")
  /\ UNCHANGED <<args, clock, obs>>
  /\ UNCHANGED <<registry, wl, eval_calls>>
  /\ imported_submission' =
       ModulePath(ImportedPath(submission_path, FLAGS_submission_path))

\* mutant: the seed is drawn once and every later trial reuses it
StartTrialReuseSeed(seed) ==
  /\ pc = "for"
  /\ hi < Len(tuning_search_space)
  /\ hyperparameters' = tuning_search_space[hi + 1]
  /\ rng' = IF urandom_draws = 0 THEN PRNGKey(seed) ELSE rng
  /\ urandom_draws' = IF urandom_draws = 0 THEN 1 ELSE urandom_draws
  /\ train_once_calls' = Append(train_once_calls,
       [hyperparameters |-> tuning_search_space[hi + 1],
        draw |-> urandom_draws', trial |-> hi + 1])
  /\ pc' = "train_once"
  /\ UNCHANGED <<args, tuning_search_space, hi, all_timings, all_metrics,
                 score, exception, goal_reached, is_time_remaining,
                 last_eval_time, accumulated_submission_time, eval_results,
                 global_step, training_complete, start_time, current_time,
                 clock, submission_elapsed, eval_elapsed, update_calls,
                 signal_call, flipped, trial_log, total_steps, elapsed>>
  /\ UNCHANGED <<registry, wl, input_queue, seedv, eval_calls,
                 trained, call_log>>
  /\ UNCHANGED imported_submission

\* one iteration of the for loop: draw a seed and call train_once
StartTrial(seed) ==
  /\ pc = "for"
  /\ hi < Len(tuning_search_space)
  /\ hyperparameters' = tuning_search_space[hi + 1]
  /\ rng' = PRNGKey(seed)
  /\ urandom_draws' = urandom_draws + 1
  /\ train_once_calls' = Append(train_once_calls,
       [hyperparameters |-> tuning_search_space[hi + 1],
        draw |-> urandom_draws + 1, trial |-> hi + 1])
  /\ pc' = "train_once"
  /\ UNCHANGED <<args, tuning_search_space, hi, all_timings, all_metrics,
                 score, exception, goal_reached, is_time_remaining,
                 last_eval_time, accumulated_submission_time, eval_results,
                 global_step, training_complete, start_time, current_time,
                 clock, submission_elapsed, eval_elapsed, update_calls,
                 signal_call, flipped, trial_log, total_steps, elapsed>>
  /\ UNCHANGED <<registry, wl, input_queue, seedv, eval_calls,
                 trained, call_log>>
  /\ UNCHANGED imported_submission

\* after the for loop: score = min(all_timings); min of no trials raises
ComputeScore ==
  /\ pc = "for"
  /\ hi >= Len(tuning_search_space)
  /\ IF all_timings = <<>>
       THEN Propagate("ValueError")
       ELSE /\ pc' = "done"
            /\ score' = min(all_timings)
            /\ UNCHANGED <<exception, tuning_search_space, hi, all_timings,
                           all_metrics, loop, input_queue, seedv, trained,
                           call_log>>
  /\ UNCHANGED <<args, clock, obs>>
  /\ UNCHANGED <<registry, wl, eval_calls>>
  /\ UNCHANGED imported_submission

\* ------------------------------------------------------------- train_once

\* a call of the callback fn with the present values of the locals
Call(fn) ==
  [fn |-> fn, global_step |-> global_step,
   optimizer_state |-> optimizer_state, model_params |-> model_params,
   model_state |-> model_state]

\* the calls of the workload setup: each sees the parts of the training
\* state that the calls before it have returned
SetupCall(i) ==
  [fn |-> SetupOrder[i], global_step |-> 0,
   optimizer_state |-> Unbound,
   model_params |->
     IF \E j \in 1..(i - 1) : SetupOrder[j] = "init_model_fn"
       THEN Value("model_params", 0) ELSE Unbound,
   model_state |->
     IF \E j \in 1..(i - 1) : SetupOrder[j] = "init_model_fn"
       THEN Value("model_state", 0) ELSE Unbound]

\* mutant: the metrics report the index of the last step, counted from 0
ReturnedMetricsLastIndex(results, step) ==
  [eval_results |-> results, global_step |-> step - 1]

\* metrics = {'eval_results': eval_results, 'global_step': global_step}
ReturnedMetrics(results, step) ==
  [eval_results |-> results, global_step |-> step]

\* mutant: model_state keeps its old value when update_params returns
AfterUpdateKeepModelState(old, returned, outcome) ==
  IF outcome = "complete" THEN old
  ELSE [returned EXCEPT !.model_state = old.model_state]

\* the training state after the try statement around update_params: the
\* returned triple, or the old values when the call raised the signal
AfterUpdate(old, returned, outcome) ==
  IF outcome = "complete" THEN old ELSE returned

\* workload.build_input_queue returns what _build_dataset returns: that is a
\* generator function, so the call runs none of its body
build_input_queue == "generator"

\* the first statement of _build_dataset's body
Divisible(size, devices) == ~(size % devices > 0)

\* workload setup (build_input_queue, init_model_fn, init_optimizer_state)
\* and bookkeeping; the setup takes d ticks; init_model_fn assigns the
\* workload's shape cache; init_optimizer_state is submission code, runs
\* after it and may raise
TrainOnceSetup(d, outcome) ==
  /\ pc = "train_once"
  /\ elapsed + d <= MaxElapsed
  /\ clock' = clock + d
  /\ elapsed' = elapsed + d
  /\ IF outcome = "error"
       THEN Propagate("InitOptimizerStateError")
       ELSE /\ pc' = "while"
            /\ goal_reached' = FALSE
            /\ is_time_remaining' = TRUE
            /\ last_eval_time' = 0
            /\ accumulated_submission_time' = 0
            /\ eval_results' = <<>>
            /\ global_step' = 0
            /\ training_complete' = FALSE
            /\ input_queue' = build_input_queue
            /\ sub_rngs' = SubSeeds(rng)
            /\ step_rngs' = None
            /\ model_params' = Value("model_params", 0)
            /\ model_state' = Value("model_state", 0)
            /\ optimizer_state' = Value("optimizer_state", 0)
            /\ call_log' = [i \in 1..Len(SetupOrder) |-> SetupCall(i)]
            /\ UNCHANGED <<exception, score, tuning_search_space, hi,
                           all_timings, all_metrics, hyperparameters, rng,
                           start_time, current_time>>
  /\ submission_elapsed' = 0
  /\ eval_elapsed' = 0
  /\ update_calls' = 0
  /\ signal_call' = 0
  /\ flipped' = FALSE
  /\ eval_calls' = 0
  /\ _param_shapes' = ParamShapes
  /\ cache_writes' = [cache_writes EXCEPT !.shapes = @ + 1]
  /\ UNCHANGED <<args, train_once_calls, urandom_draws, trial_log,
                 total_steps>>
  /\ UNCHANGED <<registry, _param_types, workload_log>>
  /\ UNCHANGED imported_submission
  /\ UNCHANGED _eval_iters

\* mutant: the step's interval starts where the previous step's ended, so
\* it spans the evaluation in between
WhileEnterFromLastStep ==
  /\ pc = "while"
  /\ LoopCondition(is_time_remaining, goal_reached, training_complete)
  /\ total_steps < MaxSteps
  /\ total_steps' = total_steps + 1
  /\ start_time' = IF global_step = 0 THEN clock ELSE current_time
  /\ pc' = "data_selection"
  /\ UNCHANGED <<args, tuning_search_space, hi, all_timings, all_metrics,
                 score, exception, hyperparameters, rng, goal_reached,
                 is_time_remaining, last_eval_time,
                 accumulated_submission_time, eval_results, global_step,
                 training_complete, current_time, clock, train_once_calls,
                 urandom_draws, submission_elapsed, eval_elapsed,
                 update_calls, signal_call, flipped, trial_log, elapsed>>
  /\ step_rngs' = StepSeeds(sub_rngs.rng, global_step)
  /\ UNCHANGED <<registry, wl, input_queue, sub_rngs, eval_calls,
                 trained, call_log>>
  /\ UNCHANGED imported_submission

\* the while condition holds: the step's seeds are derived and
\* start_time = time.time()
WhileEnter ==
  /\ pc = "while"
  /\ LoopCondition(is_time_remaining, goal_reached, training_complete)
  /\ total_steps < MaxSteps
  /\ total_steps' = total_steps + 1
  /\ start_time' = clock
  /\ pc' = "data_selection"
  /\ UNCHANGED <<args, tuning_search_space, hi, all_timings, all_metrics,
                 score, exception, hyperparameters, rng, goal_reached,
                 is_time_remaining, last_eval_time,
                 accumulated_submission_time, eval_results, global_step,
                 training_complete, current_time, clock, train_once_calls,
                 urandom_draws, submission_elapsed, eval_elapsed,
                 update_calls, signal_call, flipped, trial_log, elapsed>>
  /\ step_rngs' = StepSeeds(sub_rngs.rng, global_step)
  /\ UNCHANGED <<registry, wl, input_queue, sub_rngs, eval_calls,
                 trained, call_log>>
  /\ UNCHANGED imported_submission

\* the while condition fails: train_once returns (time, metrics) and the
\* orchestrator appends them
WhileExit ==
  /\ pc = "while"
  /\ ~LoopCondition(is_time_remaining, goal_reached, training_complete)
  /\ all_timings' = Append(all_timings, accumulated_submission_time)
  /\ all_metrics' = Append(all_metrics,
                           ReturnedMetrics(eval_results, global_step))
  /\ trial_log' = Append(trial_log,
       [goal_reached |-> goal_reached,
        is_time_remaining |-> is_time_remaining,
        training_complete |-> training_complete,
        measured |-> submission_elapsed,
        eval_elapsed |-> eval_elapsed,
        update_calls |-> update_calls,
        signal_call |-> signal_call])
  /\ hi' = hi + 1
  /\ pc' = "for"
  /\ UNCHANGED <<args, tuning_search_space, score, exception, loop, clock,
                 train_once_calls, urandom_draws, submission_elapsed,
                 eval_elapsed, update_calls, signal_call, flipped,
                 total_steps, elapsed>>
  /\ UNCHANGED <<registry, wl, input_queue, seedv, eval_calls,
                 trained, call_log>>
  /\ UNCHANGED imported_submission

\* data_selection (submission code) takes d ticks and raises, or draws the
\* next batch from the input queue and returns; the first next() runs the
\* generator's body from its start, which raises ValueError when the batch
\* size is not divisible by the device count
DataSelection(d, outcome) ==
  /\ pc = "data_selection"
  /\ elapsed + d <= MaxElapsed
  /\ clock' = clock + d
  /\ elapsed' = elapsed + d
  /\ submission_elapsed' = submission_elapsed + d
  /\ IF outcome = "error"
       THEN Propagate("DataSelectionError")
       ELSE IF input_queue = build_input_queue
                 /\ ~Divisible(batch_size, local_device_count)
         THEN Propagate("ValueError")
         ELSE /\ pc' = "preprocess_for_train"
              /\ input_queue' = "iterating"
              /\ call_log' = Append(call_log, Call("data_selection"))
              /\ UNCHANGED <<exception, score, tuning_search_space, hi,
                             all_timings, all_metrics, loop, seedv, trained>>
  /\ UNCHANGED <<args, train_once_calls, urandom_draws, eval_elapsed,
                 update_calls, signal_call, flipped, trial_log, total_steps>>
  /\ UNCHANGED <<registry, wl, eval_calls>>
  /\ UNCHANGED imported_submission

\* workload.preprocess_for_train takes d ticks
PreprocessForTrain(d) ==
  /\ pc = "preprocess_for_train"
  /\ elapsed + d <= MaxElapsed
  /\ clock' = clock + d
  /\ elapsed' = elapsed + d
  /\ submission_elapsed' = submission_elapsed + d
  /\ pc' = "update_params"
  /\ UNCHANGED <<args, tuning_search_space, hi, all_timings, all_metrics,
                 score, exception, loop, train_once_calls, urandom_draws,
                 eval_elapsed, update_calls, signal_call, flipped, trial_log,
                 total_steps>>
  /\ UNCHANGED <<registry, wl, input_queue, seedv, eval_calls, trained>>
  /\ call_log' = Append(call_log, Call("preprocess_for_train"))
  /\ UNCHANGED imported_submission

\* the arguments of the update_params call are evaluated, among them
\* workload.model_params_types, which fills the type cache on its first
\* read; update_params takes d ticks and returns, raises
\* TrainingCompleteError or raises something else; then the step's
\* bookkeeping up to the eval test
UpdateParams(d, outcome) ==
  /\ pc = "update_params"
  /\ elapsed + d <= MaxElapsed
  /\ clock' = clock + d
  /\ elapsed' = elapsed + d
  /\ submission_elapsed' = submission_elapsed + d
  /\ update_calls' = update_calls + 1
  /\ IF outcome = "error"
       THEN /\ Propagate("UpdateParamsError")
            /\ UNCHANGED <<signal_call, flipped>>
       ELSE /\ training_complete' =
                 IF outcome = "complete" THEN TRUE ELSE training_complete
            /\ signal_call' =
                 IF outcome = "complete" THEN update_calls + 1 ELSE signal_call
            /\ global_step' = global_step + 1
            /\ current_time' = clock'
            /\ accumulated_submission_time' =
                 AccumulateTime(accumulated_submission_time, current_time',
                                start_time)
            /\ is_time_remaining' =
                 TimeRemaining(accumulated_submission_time',
                               max_allowed_runtime_sec)
            /\ flipped' = (flipped \/ ~is_time_remaining' \/ training_complete')
            /\ pc' = IF EvalDue(current_time', last_eval_time,
                                eval_period_time_sec, training_complete')
                       THEN "eval_model" ELSE "while"
            /\ UNCHANGED <<exception, score, tuning_search_space, hi,
                           all_timings, all_metrics, hyperparameters, rng,
                           goal_reached, last_eval_time, eval_results,
                           start_time, input_queue, seedv>>
            /\ call_log' = call_log \o <<Call("model_params_types"),
                                          Call("update_params")>>
            /\ LET after == AfterUpdate(
                       [optimizer_state |-> optimizer_state,
                        model_params |-> model_params,
                        model_state |-> model_state],
                       ReturnedTriple(update_calls + 1), outcome) IN
                 /\ optimizer_state' = after.optimizer_state
                 /\ model_params' = after.model_params
                 /\ model_state' = after.model_state
  /\ IF WritesTypes(_param_shapes, _param_types)
       THEN /\ _param_types' = jax_param_types(_param_shapes)
            /\ cache_writes' = [cache_writes EXCEPT !.types = @ + 1]
       ELSE UNCHANGED <<_param_types, cache_writes>>
  /\ UNCHANGED <<args, train_once_calls, urandom_draws, eval_elapsed,
                 trial_log, total_steps>>
  /\ UNCHANGED <<registry, _param_shapes, workload_log, eval_calls>>
  /\ UNCHANGED imported_submission
  /\ UNCHANGED _eval_iters

\* workload.eval_model takes d ticks and returns a metric; the result is
\* appended to the history and the goal is tested
EvalModel(d, latest_eval_result) ==
  /\ pc = "eval_model"
  /\ elapsed + d <= MaxElapsed
  /\ clock' = clock + d
  /\ elapsed' = elapsed + d
  /\ eval_elapsed' = eval_elapsed + d
  /\ last_eval_time' = current_time
  /\ eval_results' = RecordEval(eval_results, global_step, latest_eval_result)
  /\ goal_reached' = has_reached_goal(latest_eval_result)
  /\ flipped' = (flipped \/ goal_reached')
  /\ pc' = "while"
  /\ UNCHANGED <<args, tuning_search_space, hi, all_timings, all_metrics,
                 score, exception, hyperparameters, rng, is_time_remaining,
                 accumulated_submission_time, global_step, training_complete,
                 start_time, current_time, train_once_calls, urandom_draws,
                 submission_elapsed, update_calls, signal_call, trial_log,
                 total_steps>>
  /\ eval_calls' = eval_calls + 1
  /\ call_log' = Append(call_log, Call("eval_model"))
  /\ UNCHANGED <<registry, wl, input_queue, seedv, trained>>
  /\ UNCHANGED imported_submission

Next ==
  \/ UnknownWorkload
  \/ ExternalNoSearchSpace
  \/ ExternalSetup
  \/ SelfTuningTrial
  \/ \E seed \in Seeds : StartTrial(seed)
  \/ ComputeScore
  \/ \E d \in Durations, o \in {"return", "error"} : TrainOnceSetup(d, o)
  \/ WhileEnter
  \/ WhileExit
  \/ \E d \in Durations, o \in {"return", "error"} : DataSelection(d, o)
  \/ \E d \in Durations : PreprocessForTrain(d)
  \/ \E d \in Durations, o \in {"return", "complete", "error"} :
       UpdateParams(d, o)
  \/ \E d \in Durations, m \in Metrics : EvalModel(d, m)

Spec == Init /\ [][Next]_vars

\* ------------------------------- re-running with a deterministic submission

\* a deterministic submission on a deterministic workload: the step from
\* which the evaluation metric passes the target depends on the root seed only
GoalStep(key) == key[2] + 1

\* what eval_model returns after the given number of steps
DetMetric(key, step) ==
  IF step >= GoalStep(key) THEN target_value + 1 ELSE target_value

\* train_once is run MaxTrials times with the same root seed
InitDet ==
  /\ submission_path = PathA
  /\ FLAGS_submission_path = PathA
  /\ root_seed \in Seeds
  /\ workload_name = "mnist_jax"
  /\ batch_size = 2
  /\ local_device_count = 2
  /\ WORKLOADS = [k \in RegistryKeys |->
                    Instance(k, IF k = "mnist_pytorch" THEN 1 ELSE 2)]
  /\ import_log = <<>>
  /\ FreshWorkload
  /\ NotStarted
  /\ tuning_ruleset = "external"
  /\ tuning_search_space_arg = "space.json"
  /\ num_tuning_trials = MaxTrials
  /\ max_allowed_runtime_sec = MaxBudget
  /\ eval_period_time_sec \in {0, MaxEvalPeriod}
  /\ clock \in {0, Epoch}
  /\ pc = "start"

\* the callbacks return, the timings are free, the metric is the
\* deterministic one
NextDet ==
  \/ ExternalSetup
  \/ StartTrial(root_seed)
  \/ ComputeScore
  \/ \E d \in Durations : TrainOnceSetup(d, "return")
  \/ WhileEnter
  \/ WhileExit
  \/ \E d \in Durations : DataSelection(d, "return")
  \/ \E d \in Durations : PreprocessForTrain(d)
  \/ \E d \in Durations : UpdateParams(d, "return")
  \/ \E d \in Durations : EvalModel(d, DetMetric(rng, global_step))

SpecDet == InitDet /\ [][NextDet]_vars

\* ------------------------------------------------ Workload shape caches

\* a Workload instance right after its construction, in a caller that
\* calls init_model_fn and reads the two properties in any order and
\* catches what they raise
InitWorkload ==
  /\ submission_path = PathA
  /\ FLAGS_submission_path = PathA
  /\ FreshWorkload
  /\ NotStarted
  /\ WORKLOADS = <<>>
  /\ import_log = <<>>
  /\ workload_name = "criteo1tb"
  /\ batch_size = 2
  /\ local_device_count = 2
  /\ root_seed = None
  /\ tuning_ruleset = "external"
  /\ tuning_search_space_arg = "space.json"
  /\ num_tuning_trials = 1
  /\ max_allowed_runtime_sec = MaxBudget
  /\ eval_period_time_sec = 0
  /\ clock = 0
  /\ pc = "workload"

\* what no direct call on the Workload changes
WorkloadFrame ==
  UNCHANGED <<args, orch, loop, clock, obs, registry, input_queue, seedv,
              eval_calls, trained, call_log, imported_submission>>

\* workload.init_model_fn(rng): assigns the shape cache
init_model_fn ==
  /\ pc = "workload"
  /\ Len(workload_log) < MaxOps
  /\ _param_shapes' = ParamShapes
  /\ cache_writes' = [cache_writes EXCEPT !.shapes = @ + 1]
  /\ workload_log' = Append(workload_log,
                            [op |-> "init_model_fn", result |-> None])
  /\ UNCHANGED _param_types
  /\ WorkloadFrame
  /\ UNCHANGED _eval_iters

\* a read of workload.param_shapes
ReadParamShapes ==
  /\ pc = "workload"
  /\ Len(workload_log) < MaxOps
  /\ workload_log' = Append(workload_log,
       [op |-> "param_shapes", result |-> param_shapes(_param_shapes)])
  /\ UNCHANGED <<_param_shapes, _param_types, cache_writes>>
  /\ WorkloadFrame
  /\ UNCHANGED _eval_iters

\* a read of workload.model_params_types: fills the type cache when it is
\* empty and the shapes are there
ReadModelParamsTypes ==
  /\ pc = "workload"
  /\ Len(workload_log) < MaxOps
  /\ workload_log' = Append(workload_log,
       [op |-> "model_params_types",
        result |-> model_params_types(_param_shapes, _param_types)])
  /\ IF WritesTypes(_param_shapes, _param_types)
       THEN /\ _param_types' = jax_param_types(_param_shapes)
            /\ cache_writes' = [cache_writes EXCEPT !.types = @ + 1]
       ELSE UNCHANGED <<_param_types, cache_writes>>
  /\ UNCHANGED _param_shapes
  /\ WorkloadFrame
  /\ UNCHANGED _eval_iters

NextWorkload == init_model_fn \/ ReadParamShapes \/ ReadModelParamsTypes

SpecWorkload == InitWorkload /\ [][NextWorkload]_vars

\* --------------------------------- the submission_path argument and the flag

\* score_submission_on_workload is called for one trial at most, with the
\* flag naming the same file as the argument or another one
InitFlag ==
  /\ submission_path = PathA
  /\ FLAGS_submission_path \in {PathA, PathB}
  /\ workload_name \in {"mnist_jax", "imagenet"}
  /\ batch_size = 2
  /\ local_device_count = 2
  /\ root_seed = None
  /\ WORKLOADS = [k \in RegistryKeys |->
                    Instance(k, IF k = "mnist_pytorch" THEN 1 ELSE 2)]
  /\ import_log = <<>>
  /\ FreshWorkload
  /\ NotStarted
  /\ tuning_ruleset \in {"external", "self"}
  /\ tuning_search_space_arg \in {None, "space.json"}
  /\ num_tuning_trials \in {0, 1}
  /\ max_allowed_runtime_sec = MaxBudget
  /\ eval_period_time_sec = 0
  /\ clock = Epoch
  /\ pc = "start"

SpecFlag == InitFlag /\ [][Next]_vars

\* ------------------------------------------------------- _import_workload

\* main before its first _import_workload call: the registry is empty
InitLoader ==
  /\ submission_path = PathA
  /\ FLAGS_submission_path = PathA
  /\ WORKLOADS = <<>>
  /\ import_log = <<>>
  /\ FreshWorkload
  /\ NotStarted
  /\ workload_name = "mnist_jax"
  /\ batch_size = 2
  /\ local_device_count = 2
  /\ root_seed = None
  /\ tuning_ruleset = "external"
  /\ tuning_search_space_arg = "space.json"
  /\ num_tuning_trials = 1
  /\ max_allowed_runtime_sec = MaxBudget
  /\ eval_period_time_sec = 0
  /\ clock = 0
  /\ pc = "main"

\* the registry after WORKLOADS[key] = instance
Register(reg, key, instance) ==
  [k \in DOMAIN reg \cup {key} |-> IF k = key THEN instance ELSE reg[k]]

\* mutant: the except clause registers None under the key
ImportWorkloadRegisterNone(key, outcome) ==
  /\ pc = "main"
  /\ Len(import_log) < MaxImports
  /\ import_log' = Append(import_log, [key |-> key, outcome |-> outcome])
  /\ CASE outcome = "ok" ->
            /\ WORKLOADS' = Register(WORKLOADS, key,
                                     Instance(key, Len(import_log) + 1))
            /\ UNCHANGED <<pc, exception>>
       [] outcome = "ModuleNotFoundError" ->
            /\ WORKLOADS' = Register(WORKLOADS, key, None)
            /\ UNCHANGED <<pc, exception>>
       [] outcome = "ValueError" ->
            /\ pc' = "raised"
            /\ exception' = "ValueError"
            /\ UNCHANGED WORKLOADS
  /\ UNCHANGED <<args, tuning_search_space, hi, all_timings, all_metrics,
                 score, loop, clock, obs, wl, input_queue, seedv, eval_calls,
                 trained, call_log>>
  /\ UNCHANGED imported_submission

\* _import_workload(path, key, class name): the import succeeds and the
\* instance is registered, or the module is not found, which is caught and
\* logged, or the module has no member of that name, which raises ValueError
ImportWorkload(key, outcome) ==
  /\ pc = "main"
  /\ Len(import_log) < MaxImports
  /\ import_log' = Append(import_log, [key |-> key, outcome |-> outcome])
  /\ CASE outcome = "ok" ->
            /\ WORKLOADS' = Register(WORKLOADS, key,
                                     Instance(key, Len(import_log) + 1))
            /\ UNCHANGED <<pc, exception>>
       [] outcome = "ModuleNotFoundError" ->
            UNCHANGED <<WORKLOADS, pc, exception>>
       [] outcome = "ValueError" ->
            /\ pc' = "raised"
            /\ exception' = "ValueError"
            /\ UNCHANGED WORKLOADS
  /\ UNCHANGED <<args, tuning_search_space, hi, all_timings, all_metrics,
                 score, loop, clock, obs, wl, input_queue, seedv, eval_calls,
                 trained, call_log>>
  /\ UNCHANGED imported_submission

\* how an import ends
ImportOutcomes == {"ok", "ModuleNotFoundError", "ValueError"}

NextLoader ==
  \E key \in ImportKeys, o \in ImportOutcomes : ImportWorkload(key, o)

SpecLoader == InitLoader /\ [][NextLoader]_vars

\* ------------------------------------------------------------- properties

\* the program positions inside one step of the loop
InStep == pc \in {"data_selection", "preprocess_for_train", "update_params"}

\* the trials that have returned and whose results the orchestrator holds
Returned == 1..Len(all_timings)

\* the trials among them that reached the goal
Reached == {i \in Returned : trial_log[i].goal_reached}

\* t is the smallest of the times of the trials in S
IsMinOver(t, S) ==
  /\ \E i \in S : all_timings[i] = t
  /\ \A i \in S : t <= all_timings[i]

\* C1: the accumulated submission time is the time that passed inside the
\* steps' callbacks (data_selection to update_params); the time that passed
\* inside eval_model is never part of it, and the time train_once returns is
\* that sum.
C1_TimeExcludesEval ==
  /\ pc \in {"while", "eval_model"} =>
       accumulated_submission_time = submission_elapsed
  /\ \A i \in Returned : all_timings[i] = trial_log[i].measured

\* a trial returned after two steps with an evaluation that took time
C1_Witness ==
  /\ pc = "for"
  /\ Len(all_timings) >= 1
  /\ trial_log[1].update_calls >= 2
  /\ trial_log[1].eval_elapsed > 0
  /\ all_timings[1] > 0
  /\ Len(all_metrics[1].eval_results) >= 2

\* C2: a step (data_selection, preprocess, update_params) runs only while
\* time remains, the goal is not reached and completion is not signalled,
\* and never after one of the three has flipped.
C2_StepOnlyWhileAllHold ==
  InStep => /\ is_time_remaining
            /\ ~goal_reached
            /\ ~training_complete
            /\ ~flipped

\* a trial returned after two steps because the budget ran out
C2_Witness ==
  /\ pc = "for"
  /\ Len(all_timings) >= 1
  /\ trial_log[1].update_calls = 2
  /\ ~trial_log[1].is_time_remaining
  /\ ~trial_log[1].goal_reached
  /\ ~trial_log[1].training_complete

\* C3: once update_params has raised the completion signal on call k, the
\* flag is set, no exception is pending, no further call is made, and
\* global_step is k, in the loop and in the returned metrics.
C3_CompletionSignalCaught ==
  /\ (signal_call > 0 /\ pc \in {"while", "eval_model"} \cup
                               {"data_selection", "preprocess_for_train",
                                "update_params"}) =>
       /\ training_complete
       /\ ~InStep
       /\ exception = None
       /\ global_step = signal_call
       /\ update_calls = signal_call
  /\ \A i \in Returned :
       trial_log[i].signal_call > 0 =>
         /\ trial_log[i].training_complete
         /\ all_metrics[i].global_step = trial_log[i].signal_call
         /\ trial_log[i].update_calls = trial_log[i].signal_call
         /\ exception = None

\* a trial returned with global_step 3 after the signal on the third call
C3_Witness ==
  /\ pc = "for"
  /\ exception = None
  /\ Len(all_timings) >= 1
  /\ trial_log[1].signal_call = 3
  /\ all_metrics[1].global_step = 3

\* C4: a returned trial that ran out of time without reaching the goal
\* reports a time other than its measured accumulated time.
C4_TimeoutReturnsSentinel ==
  \A i \in Returned :
    (~trial_log[i].goal_reached /\ ~trial_log[i].is_time_remaining) =>
      all_timings[i] # trial_log[i].measured

\* C5: when some trial reached the goal, the score is the smallest time
\* among the trials that reached the goal.
C5_ScoreIsMinOverReached ==
  (pc = "done" /\ Reached # {}) => IsMinOver(score, Reached)

\* C6: when no trial reached the goal, the score is not the numeric minimum
\* of the trials' times.
C6_AllFailedIsNotAMinimum ==
  (pc = "done" /\ Reached = {}) => ~IsMinOver(score, Returned)

\* C7: when every trial reached the goal, the score is the smallest of the
\* trials' times, wherever in the list it stands; min of 10, 5, 8 is 5.
C7_ScoreIsMinWhenAllReached ==
  /\ min(<<10, 5, 8>>) = 5
  /\ (pc = "done" /\ Reached = Returned) => IsMinOver(score, Returned)

\* every trial reached the goal and the smallest time is not the first
C7_Witness ==
  /\ pc = "done"
  /\ Len(all_timings) >= 2
  /\ Reached = Returned
  /\ all_timings[2] < all_timings[1]
  /\ score = all_timings[2]

\* C8: the i-th call of train_once gets the i-th generated setting and the
\* i-th seed draw, there are never more calls than num_tuning_trials, and
\* the score is computed after exactly num_tuning_trials calls.
C8_OneCallPerSetting ==
  /\ Len(train_once_calls) <= num_tuning_trials
  /\ urandom_draws = Len(train_once_calls)
  /\ \A i \in 1..Len(train_once_calls) :
       /\ train_once_calls[i].hyperparameters =
            generate_search(num_tuning_trials)[i]
       /\ train_once_calls[i].trial = i
       /\ train_once_calls[i].draw = i
  /\ pc = "done" => Len(train_once_calls) = num_tuning_trials

\* the score was computed after two trials
C8_Witness ==
  /\ pc = "done"
  /\ num_tuning_trials = MaxTrials
  /\ Len(train_once_calls) = MaxTrials
  /\ Len(all_timings) = MaxTrials

\* C9: under the self-tuning ruleset the run ends with one call of
\* train_once and that trial's time as the score.
C9_SelfTuningRunsOneTrial ==
  (tuning_ruleset = "self" /\ pc \in {"done", "raised"}) =>
    /\ pc = "done"
    /\ Len(train_once_calls) = 1
    /\ Len(all_timings) = 1
    /\ score = all_timings[1]

\* C10: after an exception of submission code the run has ended with that
\* exception and no score, the aborted trial is the last call of train_once
\* (none was started after it, none was repeated) and it returned nothing.
C10_SubmissionErrorPropagates ==
  exception \in SubmissionErrors =>
    /\ pc = "raised"
    /\ score = NoScore
    /\ Len(train_once_calls) = Len(trial_log) + 1
    /\ urandom_draws = Len(train_once_calls)
    /\ train_once_calls[Len(train_once_calls)].trial = Len(train_once_calls)

\* update_params failed in the first of two trials, after one full step
C10_Witness ==
  /\ exception = "UpdateParamsError"
  /\ pc = "raised"
  /\ num_tuning_trials = MaxTrials
  /\ Len(train_once_calls) = 1
  /\ update_calls = 2

\* the indices of the successful imports of key
OkImports(key) ==
  {i \in 1..Len(import_log) :
     import_log[i].key = key /\ import_log[i].outcome = "ok"}

\* C11: a ModuleNotFoundError during an import is caught: no exception
\* reaches the caller of _import_workload, the call leaves no entry under its
\* key, and every workload imported successfully before or after it stays
\* registered (with the instance of its last successful import).
C11_MissingModuleSkipped ==
  pc \in {"main", "raised"} =>
    /\ DOMAIN WORKLOADS = {k \in ImportKeys : OkImports(k) # {}}
    /\ \A k \in DOMAIN WORKLOADS :
         \E i \in OkImports(k) :
           /\ WORKLOADS[k] = Instance(k, i)
           /\ \A j \in OkImports(k) : j <= i
    /\ (\A i \in 1..Len(import_log) : import_log[i].outcome # "ValueError")
         => (pc = "main" /\ exception = None)

\* a module that was not found between two successful imports of other
\* workloads: its key is absent, the other two are registered
C11_Witness ==
  /\ pc = "main"
  /\ Len(import_log) = 3
  /\ import_log[1].outcome = "ok"
  /\ import_log[2].outcome = "ModuleNotFoundError"
  /\ import_log[3].outcome = "ok"
  /\ import_log[2].key \notin DOMAIN WORKLOADS
  /\ Cardinality(DOMAIN WORKLOADS) = 2

\* the two configuration errors of score_submission_on_workload
Misconfigured ==
  \/ workload_name \notin DOMAIN WORKLOADS
  \/ tuning_ruleset = "external" /\ tuning_search_space_arg = None

\* C12: a configuration error (a workload name that is not registered, or
\* the external ruleset without a search space) raises at once: the run ends
\* with KeyError or ValueError before any train_once call, no seed is drawn,
\* no callback runs, no score is returned and nothing is tried again.
C12_ConfigErrorRaisesAtOnce ==
  Misconfigured =>
    /\ pc \in {"start", "raised"}
    /\ train_once_calls = <<>>
    /\ urandom_draws = 0
    /\ total_steps = 0
    /\ elapsed = 0
    /\ score = NoScore
    /\ pc = "raised" =>
         exception = IF workload_name \notin DOMAIN WORKLOADS
                       THEN "KeyError" ELSE "ValueError"

\* the external ruleset was asked for two trials of a registered workload
\* without a search space, and the call has raised
C12_Witness ==
  /\ pc = "raised"
  /\ exception = "ValueError"
  /\ workload_name \in DOMAIN WORKLOADS
  /\ tuning_ruleset = "external"
  /\ tuning_search_space_arg = None
  /\ num_tuning_trials = MaxTrials

\* C13: with a batch size that the device count does not divide, the error
\* is raised when the input queue is built in train_once's setup, before the
\* model and the optimizer state are initialised and before the first step:
\* train_once never gets past its setup.
C13_IndivisibleBatchRaisesAtBuild ==
  ~Divisible(batch_size, local_device_count) =>
    /\ pc \notin {"while", "data_selection", "preprocess_for_train",
                  "update_params", "eval_model"}
    /\ total_steps = 0

\* the runs that returned with the goal reached
ReachedRuns == {i \in 1..Len(trial_log) : trial_log[i].goal_reached}

\* C14 as stated: any two runs of train_once with the same root seed and a
\* deterministic submission that reach the goal do so at the same step
\* count, whatever their timings.
C14_SameStepCountAtGoal ==
  \A i, j \in ReachedRuns :
    all_metrics[i].global_step = all_metrics[j].global_step

\* C14, amended: when an evaluation runs after every step
\* (eval_period_time_sec <= 0), every run with the same root seed and a
\* deterministic submission that reaches the goal does so at the same step
\* count, the first step whose metric passes the target, whatever the
\* timings.
C14_SameStepCountWhenEvalEveryStep ==
  eval_period_time_sec <= 0 =>
    /\ \A i, j \in ReachedRuns :
         all_metrics[i].global_step = all_metrics[j].global_step
    /\ \A i \in ReachedRuns :
         all_metrics[i].global_step = GoalStep(PRNGKey(root_seed))
    /\ (goal_reached /\ pc = "while") =>
         global_step = GoalStep(PRNGKey(root_seed))

\* two runs with the same root seed, evaluated after every step, reached
\* the goal with different measured times
C14_Witness ==
  /\ root_seed \in Seeds
  /\ eval_period_time_sec <= 0
  /\ ReachedRuns = {1, 2}
  /\ all_timings[1] # all_timings[2]

\* the trial has passed line 108 and has not been unwound
InTrial ==
  pc \in {"while", "data_selection", "preprocess_for_train", "update_params",
          "eval_model"}

\* the index of the step whose seeds were derived last
SeededStep == IF InStep THEN global_step ELSE global_step - 1

\* C15: the seeds of train_once are a function of the root seed and the
\* step index only: the four sub-seeds are the four parts of the split of the
\* root seed, the loop seed stays the fourth of them throughout the loop, and
\* the four seeds of step k are the four parts of the split of the loop seed
\* folded with k, whatever the timings, the evaluation results and the
\* earlier steps were.
C15_SeedsFromRootAndStep ==
  InTrial =>
    /\ sub_rngs.data_rng = <<rng, "split", 4, 1>>
    /\ sub_rngs.opt_init_rng = <<rng, "split", 4, 2>>
    /\ sub_rngs.model_init_rng = <<rng, "split", 4, 3>>
    /\ sub_rngs.rng = <<rng, "split", 4, 4>>
    /\ (SeededStep < 0) => (step_rngs = None)
    /\ (SeededStep >= 0) =>
         LET folded == <<(<<rng, "split", 4, 4>>), "fold_in", SeededStep>> IN
           /\ step_rngs.step_rng = folded
           /\ step_rngs.data_select_rng = <<folded, "split", 4, 1>>
           /\ step_rngs.preprocess_rng = <<folded, "split", 4, 2>>
           /\ step_rngs.update_rng = <<folded, "split", 4, 3>>
           /\ step_rngs.eval_rng = <<folded, "split", 4, 4>>

\* the second step of the second trial, after an evaluation and with time
\* accumulated: its seeds are those of step index 1
C15_Witness ==
  /\ pc = "update_params"
  /\ hi = 1
  /\ global_step = 1
  /\ eval_results # <<>>
  /\ accumulated_submission_time > 0
  /\ step_rngs.step_rng = fold_in(sub_rngs.rng, 1)

\* the last step was followed by an evaluation
EvaluatedThisStep ==
  /\ eval_results # <<>>
  /\ eval_results[Len(eval_results)][1] = global_step

\* C16 as stated: an evaluation runs after a step only when the time since
\* the last evaluation exceeds the period or the step set the completion
\* flag.
C16_EvalOnlyWhenPeriodExceeded ==
  pc = "eval_model" =>
    \/ current_time - last_eval_time > eval_period_time_sec
    \/ training_complete

\* C16, amended: after a step eval_model runs exactly when current_time
\* minus last_eval_time (0 before the first evaluation) is at least
\* eval_period_time_sec or the step set the completion flag; each evaluation
\* appends one (step, result) pair, and goal_reached is always the goal
\* predicate of the last result (false before the first evaluation).
C16_EvalWhenPeriodReached ==
  /\ pc = "eval_model" =>
       \/ current_time - last_eval_time >= eval_period_time_sec
       \/ training_complete
  /\ (pc = "while" /\ global_step >= 1) =>
       IF EvaluatedThisStep
         THEN last_eval_time = current_time
         ELSE /\ current_time - last_eval_time < eval_period_time_sec
              /\ ~training_complete
  /\ InTrial =>
       /\ Len(eval_results) = eval_calls
       /\ goal_reached =
            IF eval_results = <<>> THEN FALSE
            ELSE eval_results[Len(eval_results)][2] > target_value

\* an evaluation is about to run because exactly the period has passed
\* since the last one
C16_Witness ==
  /\ pc = "eval_model"
  /\ eval_results # <<>>
  /\ eval_period_time_sec > 0
  /\ current_time - last_eval_time = eval_period_time_sec
  /\ ~training_complete

\* C17: the step whose measured duration brings the accumulated time to the
\* budget or beyond is the last one: after it is_time_remaining is false, no
\* further step starts and train_once returns that accumulated time; a first
\* step of 2 seconds under a budget of 1 second leaves no time remaining,
\* so the run has exactly one step and an accumulated time of 2.
C17_OverrunningStepIsLast ==
  /\ (InTrial /\ global_step >= 1) =>
       (is_time_remaining <=>
          accumulated_submission_time < max_allowed_runtime_sec)
  /\ (InStep /\ global_step >= 1) =>
       accumulated_submission_time < max_allowed_runtime_sec
  /\ \A i \in Returned :
       trial_log[i].is_time_remaining <=>
         all_timings[i] < max_allowed_runtime_sec
  /\ AccumulateTime(0, Epoch + 2, Epoch) = 2
  /\ ~TimeRemaining(AccumulateTime(0, Epoch + 2, Epoch), 1)
  /\ ~LoopCondition(TimeRemaining(2, 1), FALSE, FALSE)

\* a trial whose first step overran the whole budget returned after that
\* one step, out of time, with more than the budget accumulated
C17_Witness ==
  /\ Len(trial_log) >= 1
  /\ max_allowed_runtime_sec = MaxBudget
  /\ trial_log[1].update_calls = 1
  /\ ~trial_log[1].is_time_remaining
  /\ ~trial_log[1].goal_reached
  /\ ~trial_log[1].training_complete
  /\ all_timings[1] > max_allowed_runtime_sec

\* init_model_fn was called before the i-th call on the Workload
InitialisedBefore(i) ==
  \E j \in 1..(i - 1) : workload_log[j].op = "init_model_fn"

\* C18: a read of param_shapes or model_params_types before init_model_fn
\* has run on the instance raises ValueError and returns nothing; after
\* init_model_fn has run, param_shapes returns the shapes that init_model_fn
\* stored and model_params_types the types that belong to them.
C18_ReadBeforeInitRaises ==
  pc = "workload" =>
    \A i \in 1..Len(workload_log) :
      /\ workload_log[i].op = "param_shapes" =>
           workload_log[i].result =
             IF InitialisedBefore(i) THEN "shapes of DlrmSmall"
             ELSE "ValueError"
      /\ workload_log[i].op = "model_params_types" =>
           workload_log[i].result =
             IF InitialisedBefore(i) THEN "types of shapes of DlrmSmall"
             ELSE "ValueError"

\* both properties were read before init_model_fn and one after it
C18_Witness ==
  /\ Len(workload_log) = 4
  /\ workload_log[1].op = "param_shapes"
  /\ workload_log[2].op = "model_params_types"
  /\ workload_log[3].op = "init_model_fn"
  /\ workload_log[4].op = "param_shapes"
  /\ workload_log[4].result = ParamShapes
  /\ workload_log[1].result = "ValueError"

\* the train_once calls that have passed init_model_fn
SetupsDone == Len(train_once_calls) - (IF pc = "train_once" THEN 1 ELSE 0)

\* C19 as stated: over any sequence of trials on the one Workload instance
\* each shape cache is written at most once, before any trial reads it.
C19_CachesWrittenOnce ==
  /\ cache_writes.shapes <= 1
  /\ cache_writes.types <= 1
  /\ InTrial => _param_shapes # None

\* C19, amended: _param_types is written at most once, by the first read of
\* model_params_types, and no later trial writes it again; _param_shapes is
\* written by init_model_fn in the setup of every trial, before that trial
\* reads it, and every write stores the same shapes.
C19_TypesOnceShapesPerTrial ==
  /\ cache_writes.types <= 1
  /\ (cache_writes.types = 0) <=> (_param_types = None)
  /\ (cache_writes.types = 1) =>
       (_param_types = "types of shapes of DlrmSmall")
  /\ cache_writes.shapes = SetupsDone
  /\ (cache_writes.shapes = 0) <=> (_param_shapes = None)
  /\ (cache_writes.shapes > 0) => (_param_shapes = "shapes of DlrmSmall")
  /\ InTrial => _param_shapes # None
  /\ (InTrial /\ global_step >= 1) => _param_types # None

\* the second trial has taken a step: the shapes were written twice, the
\* types once
C19_Witness ==
  /\ pc = "while"
  /\ hi = 1
  /\ global_step >= 1
  /\ cache_writes = [shapes |-> 2, types |-> 1]

\* one step of a train_once call keeps the eval history or appends one pair
\* for the current step to it; the history of a new call is empty; the
\* steps of its entries increase strictly and lie in 1..global_step
EvalHistoryStep ==
  /\ (pc = "train_once" /\ pc' = "while") => eval_results' = <<>>
  /\ (InTrial /\ InTrial') =>
       IF pc = "eval_model"
         THEN /\ Len(eval_results') = Len(eval_results) + 1
              /\ SubSeq(eval_results', 1, Len(eval_results)) = eval_results
              /\ eval_results'[Len(eval_results')][1] = global_step
              /\ eval_results'[Len(eval_results')][2] \in Metrics
         ELSE eval_results' = eval_results
  /\ InTrial' =>
       /\ \A i \in 1..Len(eval_results') :
            /\ eval_results'[i][1] >= 1
            /\ eval_results'[i][1] <= global_step'
       /\ \A i, j \in 1..Len(eval_results') :
            i < j => eval_results'[i][1] < eval_results'[j][1]

\* C20: within one train_once the eval history starts empty and only grows
\* by appending: no entry is removed, reordered or changed, each evaluation
\* adds exactly one (global_step, metric) pair, the step numbers increase
\* strictly and none exceeds the number of steps taken so far.
C20_EvalHistoryAppendOnly == [][EvalHistoryStep]_vars

\* a trial with two evaluations in its history goes on to a third step
C20_Witness ==
  /\ pc = "data_selection"
  /\ Len(eval_results) = 2
  /\ eval_results[1][1] = 1
  /\ eval_results[2][1] = 2

\* the clock readings and the non-positive periods that the operator is
\* checked on
Readings == 0..(Epoch + MaxElapsed)
NonPositivePeriods == (0 - MaxEvalPeriod)..0

\* C21: with eval_period_time_sec zero or negative an evaluation follows
\* every step: the history has one entry per step taken, and for any two
\* clock readings of which the later is not the smaller the test for an
\* evaluation succeeds.
C21_NonPositivePeriodEvalsEveryStep ==
  /\ (eval_period_time_sec <= 0 /\ InTrial) =>
       /\ Len(eval_results) =
            global_step - (IF pc = "eval_model" THEN 1 ELSE 0)
       /\ \A i \in 1..Len(eval_results) : eval_results[i][1] = i
  /\ pc = "start" =>
       \A last \in Readings, period \in NonPositivePeriods :
         \A cur \in last..(Epoch + MaxElapsed) :
           EvalDue(cur, last, period, FALSE)

\* two steps that took no time at all were each followed by an evaluation
C21_Witness ==
  /\ eval_period_time_sec <= 0
  /\ pc = "while"
  /\ global_step = 2
  /\ Len(eval_results) = 2
  /\ accumulated_submission_time = 0
  /\ ~goal_reached

\* the positions of the calls of fn in the call log
CallsOf(fn) == {i \in 1..Len(call_log) : call_log[i].fn = fn}

\* C22: in every train_once build_input_queue, init_model_fn and
\* init_optimizer_state are each called exactly once, before every callback
\* of a step, init_model_fn before init_optimizer_state; in a step
\* data_selection is followed by preprocess_for_train, then the read of
\* model_params_types, then update_params; eval_model comes only right after
\* the update_params call of its step; model_params_types is never read
\* before init_model_fn.
C22_CallbackOrder ==
  InTrial =>
    /\ \A fn \in {"build_input_queue", "init_model_fn",
                  "init_optimizer_state"} :
         /\ Cardinality(CallsOf(fn)) = 1
         /\ \A i \in CallsOf(fn) : i <= 3
    /\ \A i \in CallsOf("init_model_fn"), j \in CallsOf("init_optimizer_state") :
         i < j
    /\ \A i \in CallsOf("model_params_types"), j \in CallsOf("init_model_fn") :
         j < i
    /\ \A i \in 4..Len(call_log) :
         /\ call_log[i].fn = "data_selection" =>
              \/ i = 4
              \/ call_log[i - 1].fn \in {"update_params", "eval_model"}
         /\ call_log[i].fn = "preprocess_for_train" =>
              call_log[i - 1].fn = "data_selection"
         /\ call_log[i].fn = "model_params_types" =>
              call_log[i - 1].fn = "preprocess_for_train"
         /\ call_log[i].fn = "update_params" =>
              call_log[i - 1].fn = "model_params_types"
         /\ call_log[i].fn = "eval_model" =>
              /\ call_log[i - 1].fn = "update_params"
              /\ call_log[i].global_step = call_log[i - 1].global_step + 1

\* the second step raised the completion signal and was evaluated; the
\* first step was not evaluated
C22_Witness ==
  /\ pc = "while"
  /\ training_complete
  /\ global_step = 2
  /\ Len(call_log) = 12
  /\ call_log[12].fn = "eval_model"

\* the number of update_params calls of the current trial that have returned
ReturnedUpdates == global_step - (IF training_complete THEN 1 ELSE 0)

\* C23: the three parts of the training state are always those that the
\* last update_params call that returned has returned together (those of the
\* init functions before any has): a call that raises the completion signal
\* leaves all three as they were, nothing else in the loop changes them, and
\* every evaluation, the final one included, is given these values.
C23_TrainingStateFromLastReturn ==
  InTrial =>
    /\ optimizer_state = <<"optimizer_state", ReturnedUpdates>>
    /\ model_params = <<"model_params", ReturnedUpdates>>
    /\ model_state = <<"model_state", ReturnedUpdates>>
    /\ \A i \in CallsOf("update_params") :
         /\ call_log[i].optimizer_state =
              <<"optimizer_state", call_log[i].global_step>>
         /\ call_log[i].model_params =
              <<"model_params", call_log[i].global_step>>
         /\ call_log[i].model_state =
              <<"model_state", call_log[i].global_step>>
    /\ \A i \in CallsOf("eval_model") :
         LET returned == IF call_log[i].global_step = signal_call
                           THEN call_log[i].global_step - 1
                           ELSE call_log[i].global_step IN
           /\ call_log[i].model_params = <<"model_params", returned>>
           /\ call_log[i].model_state = <<"model_state", returned>>

\* the second update_params call raised the completion signal: the final
\* evaluation was given what the first call returned, and that is still the
\* training state
C23_Witness ==
  /\ pc = "while"
  /\ signal_call = 2
  /\ global_step = 2
  /\ call_log[Len(call_log)].fn = "eval_model"
  /\ call_log[Len(call_log)].model_params = Value("model_params", 1)
  /\ model_state = Value("model_state", 1)
  /\ optimizer_state = Value("optimizer_state", 1)

\* train_once has just returned: its locals and its call log are still there
JustReturned == pc = "for" /\ all_metrics # <<>>

\* C24: the global_step in the returned metrics is the number of
\* update_params calls of the attempt, the call that raised the completion
\* signal included; the k-th call is given global_step k-1; the returned
\* eval_results is the whole eval history, one entry per evaluation.
C24_ReturnedStepsAndHistory ==
  /\ \A i \in Returned :
       all_metrics[i].global_step = trial_log[i].update_calls
  /\ (InTrial \/ JustReturned) =>
       \A i \in CallsOf("update_params") :
         call_log[i].global_step =
           Cardinality({j \in CallsOf("update_params") : j < i})
  /\ JustReturned =>
       LET returned == all_metrics[Len(all_metrics)] IN
         /\ returned.global_step = Cardinality(CallsOf("update_params"))
         /\ returned.eval_results = eval_results
         /\ Len(returned.eval_results) = Cardinality(CallsOf("eval_model"))
         /\ {returned.eval_results[j][1] :
               j \in 1..Len(returned.eval_results)}
              = {call_log[j].global_step : j \in CallsOf("eval_model")}

\* a trial returned after two steps, the second of which raised the
\* completion signal, with one evaluation in its history
C24_Witness ==
  /\ JustReturned
  /\ signal_call = 2
  /\ all_metrics[Len(all_metrics)].global_step = 2
  /\ Len(all_metrics[Len(all_metrics)].eval_results) = 1

\* the measured duration of the step that ended last
LastStepDuration == current_time - start_time

\* C25 as stated: the returned time exceeds the budget by less than the
\* measured duration of the last step.
C25_OvershootBelowLastStep ==
  JustReturned =>
    all_timings[Len(all_timings)] - max_allowed_runtime_sec < LastStepDuration

\* C25, amended: at the start of every step after the first the accumulated
\* time is strictly below the budget and the budget is tested only between
\* steps; with a positive budget the returned time exceeds the budget by
\* less than the measured duration of the last step; with a budget of zero
\* or less the single step that runs is the whole returned time, which then
\* exceeds the budget by that step's duration or more.
C25_OvershootBelowLastStepOfPositiveBudget ==
  /\ (InStep /\ global_step >= 1) =>
       accumulated_submission_time < max_allowed_runtime_sec
  /\ InStep => is_time_remaining
  /\ (JustReturned /\ max_allowed_runtime_sec > 0) =>
       all_timings[Len(all_timings)] - max_allowed_runtime_sec
         < LastStepDuration
  /\ (JustReturned /\ max_allowed_runtime_sec <= 0) =>
       /\ global_step = 1
       /\ all_timings[Len(all_timings)] = LastStepDuration
       /\ all_timings[Len(all_timings)] - max_allowed_runtime_sec
            >= LastStepDuration

\* a trial returned after two steps with more than its positive budget
\* accumulated
C25_Witness ==
  /\ JustReturned
  /\ max_allowed_runtime_sec > 0
  /\ global_step = 2
  /\ ~is_time_remaining
  /\ all_timings[Len(all_timings)] > max_allowed_runtime_sec

\* C26: the submission's functions are taken from the module named by the
\* submission_path argument, whatever the flag says: the module that was
\* imported is the one the argument converts to.
C26_SubmissionFromArgument ==
  imported_submission # <<>> =>
    imported_submission = <<"a", ".", "s">>

\* ----------------------------------------------------- has_reached_goal

\* metric values are written in ten-thousandths, so 0.85 is 8500
cifar_target_value == 8500
imagenet_resnet_target_value == 7600
criteo1tb_target_value == 1255
librispeech_target_value == 1000
\* the literal that the LibriSpeech has_reached_goal compares with
librispeech_goal_literal == 5000

GoalWorkloads == {"cifar", "imagenet_resnet", "criteo1tb", "librispeech"}
MetricKeys == {"validation/accuracy", "validation/loss", "train/ctc_loss"}
MaxGoalCalls == 2

\* the target_value property of each workload
workload_target_value(workload) ==
  CASE workload = "cifar" -> cifar_target_value
    [] workload = "imagenet_resnet" -> imagenet_resnet_target_value
    [] workload = "criteo1tb" -> criteo1tb_target_value
    [] workload = "librispeech" -> librispeech_target_value

\* the entry of the evaluation result that each has_reached_goal reads
goal_metric(workload) ==
  CASE workload = "cifar" -> "validation/accuracy"
    [] workload = "imagenet_resnet" -> "validation/accuracy"
    [] workload = "criteo1tb" -> "validation/loss"
    [] workload = "librispeech" -> "train/ctc_loss"

\* TRUE for a goal that is a loss (reached from above), FALSE for an accuracy
loss_target(workload) == workload \in {"criteo1tb", "librispeech"}

\* has_reached_goal of each workload class
workload_has_reached_goal(workload, eval_result) ==
  CASE workload = "cifar" ->
         eval_result["validation/accuracy"] > cifar_target_value
    [] workload = "imagenet_resnet" ->
         eval_result["validation/accuracy"] > imagenet_resnet_target_value
    [] workload = "criteo1tb" ->
         eval_result["validation/loss"] < criteo1tb_target_value
    [] workload = "librispeech" ->
         eval_result["train/ctc_loss"] < librispeech_goal_literal

\* metric values on both sides of every number a workload compares with
GoalValues(workload) ==
  LET around(t) == {t - 1, t, t + 1}
  IN  around(workload_target_value(workload))
        \cup (IF workload = "librispeech"
                THEN around(librispeech_goal_literal) ELSE {})

\* evaluation results: the goal metric takes any of the values above, the
\* other entries share one value
EvalResults(workload) ==
  {[k \in MetricKeys |-> IF k = goal_metric(workload) THEN v ELSE other] :
     v \in GoalValues(workload), other \in {0, 10000}}

\* a caller that holds one workload and asks it about evaluation results
InitGoal ==
  /\ submission_path = PathA
  /\ FLAGS_submission_path = PathA
  /\ FreshWorkload
  /\ NotStarted
  /\ WORKLOADS = <<>>
  /\ import_log = <<>>
  /\ workload_name \in GoalWorkloads
  /\ batch_size = 2
  /\ local_device_count = 2
  /\ root_seed = None
  /\ tuning_ruleset = "external"
  /\ tuning_search_space_arg = "space.json"
  /\ num_tuning_trials = 1
  /\ max_allowed_runtime_sec = MaxBudget
  /\ eval_period_time_sec = 0
  /\ clock = 0
  /\ pc = "goal"

\* one call workload.has_reached_goal(eval_result)
HasReachedGoal(eval_result) ==
  /\ pc = "goal"
  /\ Len(workload_log) < MaxGoalCalls
  /\ workload_log' = Append(workload_log,
       [op |-> "has_reached_goal",
        eval_result |-> eval_result,
        result |-> workload_has_reached_goal(workload_name, eval_result)])
  /\ UNCHANGED <<_param_shapes, _param_types, cache_writes>>
  /\ WorkloadFrame
  /\ UNCHANGED _eval_iters

NextGoal == \E r \in EvalResults(workload_name) : HasReachedGoal(r)

SpecGoal == InitGoal /\ [][NextGoal]_vars

\* C27: for every workload, has_reached_goal is true exactly when the goal
\* metric is strictly past the workload's own target_value (above it for an
\* accuracy, below it for a loss); a metric equal to the target is not past it.
C27_GoalIsStrictlyPastOwnTarget ==
  \A i \in 1..Len(workload_log) :
    LET call == workload_log[i]
        metric == call.eval_result[goal_metric(workload_name)]
        target == workload_target_value(workload_name)
    IN  call.result <=> (IF loss_target(workload_name)
                           THEN metric < target
                           ELSE metric > target)

\* the part of C27 that holds: the three workloads other than LibriSpeech
C27_GoalOfOtherWorkloads ==
  workload_name # "librispeech" => C27_GoalIsStrictlyPastOwnTarget

\* C28: every train_once that returns has executed at least one step, also
\* with a budget of zero or less, and has recorded at least one evaluation:
\* the returned global_step is at least 1 and the returned history is not
\* empty.
C28_ReturnsAfterStepAndEval ==
  \A i \in Returned :
    /\ all_metrics[i].global_step >= 1
    /\ all_metrics[i].eval_results # <<>>

\* C28 as the code has it: at least one step always; the first step is
\* followed by an evaluation whenever the clock reading after it is at least
\* the period or the step raised the completion signal, and a call that
\* returns with an empty history ended on its budget with every clock
\* reading below the period.
C28_ReturnsAfterStepAndEvalWhenDue ==
  /\ \A i \in Returned : all_metrics[i].global_step >= 1
  /\ ((pc = "while" \/ JustReturned) /\ global_step >= 1
        /\ eval_results = <<>>) =>
       /\ current_time < eval_period_time_sec
       /\ ~training_complete
       /\ ~goal_reached
  /\ (JustReturned /\ all_metrics[Len(all_metrics)].eval_results = <<>>) =>
       ~is_time_remaining

\* a call with a zero budget that returned after one step and one evaluation
C28_Witness ==
  /\ JustReturned
  /\ max_allowed_runtime_sec <= 0
  /\ all_metrics[Len(all_metrics)].global_step = 1
  /\ Len(all_metrics[Len(all_metrics)].eval_results) = 1
  /\ current_time >= eval_period_time_sec

\* ------------------------------------------------ termination of the loop

\* mutant: a step may measure no time at all
StepDurationsWithZero == {0, MaxDur}

\* the measured durations of a step (current_time - start_time) when every
\* step takes at least MaxDur
StepDurations == {MaxDur}

\* one trial under the external ruleset; the budget is finite
InitTerm ==
  /\ submission_path = PathA
  /\ FLAGS_submission_path = PathA
  /\ root_seed = None
  /\ workload_name \in {"mnist_jax", "imagenet"}
  /\ batch_size = 2
  /\ local_device_count = 2
  /\ WORKLOADS = [k \in RegistryKeys |->
                    Instance(k, IF k = "mnist_pytorch" THEN 1 ELSE 2)]
  /\ import_log = <<>>
  /\ FreshWorkload
  /\ NotStarted
  /\ tuning_ruleset = "external"
  /\ tuning_search_space_arg = "space.json"
  /\ num_tuning_trials = 1
  /\ max_allowed_runtime_sec \in {0, MaxBudget}
  /\ eval_period_time_sec \in {0, MaxEvalPeriod}
  /\ clock \in {0, Epoch}
  /\ pc = "start"

\* every callback returns, update_params may raise the completion signal, and
\* the time of a step passes inside update_params
NextTerm ==
  \/ ExternalSetup
  \/ \E seed \in Seeds : StartTrial(seed)
  \/ ComputeScore
  \/ TrainOnceSetup(0, "return")
  \/ WhileEnter
  \/ WhileExit
  \/ DataSelection(0, "return")
  \/ PreprocessForTrain(0)
  \/ \E d \in StepDurations, o \in {"return", "complete"} : UpdateParams(d, o)
  \/ \E m \in Metrics : EvalModel(0, m)

\* the interpreter always goes on to the next statement; every statement
\* moves pc
SpecTerm == InitTerm /\ [][NextTerm]_vars /\ WF_pc(NextTerm)

EvalSplits == {"validation", "test"}
\* sizes of a split, in examples
SplitSizes == {1, 3}
\* global batch sizes of an evaluation
EvalBatchSizes == {2}
MaxEvalOps == 3

\* int(math.ceil(num_examples / global_batch_size))
num_batches(num_examples, global_batch_size) ==
  IF num_examples % global_batch_size = 0
    THEN num_examples \div global_batch_size
    ELSE num_examples \div global_batch_size + 1

\* mutant: the iterator is built whenever a split is evaluated
NotInEvalItersAlways(sp, iters) == TRUE

\* split not in self._eval_iters
NotInEvalIters(sp, iters) == sp \notin DOMAIN iters

\* self._eval_iters[split] = value
SetEvalIter(iters, sp, value) ==
  [s \in DOMAIN iters \cup {sp} |-> IF s = sp THEN value ELSE iters[s]]

\* build_input_queue(rng, split, data_dir, global_batch_size, num_batches,
\* repeat_final_dataset=True): an iterator that repeats indefinitely, at its
\* start
NewEvalIter(global_batch_size, batches) ==
  [global_batch_size |-> global_batch_size, num_batches |-> batches,
   position |-> 0]

\* next(iterator), n times: the iterator never ends, its position moves on
RECURSIVE DrawBatches(_, _)
DrawBatches(iter, n) ==
  IF n = 0 THEN iter
  ELSE DrawBatches([iter EXCEPT !.position = @ + 1], n - 1)

\* one Criteo workload instance that score_submission_on_workload hands to
\* every trial
InitCriteo ==
  /\ submission_path = PathA
  /\ FLAGS_submission_path = PathA
  /\ FreshWorkload
  /\ NotStarted
  /\ WORKLOADS = <<>>
  /\ import_log = <<>>
  /\ workload_name = "criteo1tb"
  /\ batch_size = 2
  /\ local_device_count = 2
  /\ root_seed = None
  /\ tuning_ruleset = "external"
  /\ tuning_search_space_arg = "space.json"
  /\ num_tuning_trials = MaxTrials
  /\ max_allowed_runtime_sec = MaxBudget
  /\ eval_period_time_sec = 0
  /\ clock = 0
  /\ pc = "criteo"

\* self._eval_model_on_split(split, num_examples, global_batch_size, ...)
EvalModelOnSplit(sp, num_examples, global_batch_size) ==
  LET batches == num_batches(num_examples, global_batch_size)
      build == NotInEvalIters(sp, _eval_iters)
      iters == IF build
                 THEN SetEvalIter(_eval_iters, sp,
                                  NewEvalIter(global_batch_size, batches))
                 ELSE _eval_iters
      after == DrawBatches(iters[sp], batches)
  IN  /\ pc = "criteo"
      /\ Len(workload_log) < MaxEvalOps
      /\ _eval_iters' = SetEvalIter(iters, sp, after)
      /\ workload_log' = Append(workload_log,
           [op |-> "_eval_model_on_split", trial |-> hi, split |-> sp,
            num_examples |-> num_examples,
            global_batch_size |-> global_batch_size,
            built |-> build,
            first |-> iters[sp].position,
            last |-> after.position])
      /\ UNCHANGED <<_param_shapes, _param_types, cache_writes>>
      /\ WorkloadFrame

\* train_once returns and the tuning loop calls it again with the same
\* workload object
NextTrialSameWorkload ==
  /\ pc = "criteo"
  /\ hi + 1 < num_tuning_trials
  /\ hi' = hi + 1
  /\ UNCHANGED <<pc, tuning_search_space, all_timings, all_metrics, score,
                 exception>>
  /\ UNCHANGED <<args, loop, clock, obs, registry, wl, input_queue, seedv,
                 eval_calls, trained, call_log, imported_submission>>

NextCriteo ==
  \/ \E sp \in EvalSplits, n \in SplitSizes, b \in EvalBatchSizes :
       EvalModelOnSplit(sp, n, b)
  \/ NextTrialSameWorkload

SpecCriteo == InitCriteo /\ [][NextCriteo]_vars

\* the evaluations of a split, as indexes of the log
EvalsOf(sp) ==
  {i \in 1..Len(workload_log) : workload_log[i].split = sp}

\* C30: the evaluation iterator of a split is built at most once per Workload
\* instance, by the first evaluation of that split, and reused by every later
\* one, also in later trials; every evaluation draws exactly
\* ceil(num_examples / global_batch_size) batches, and the position of the
\* iterator carries over from one evaluation and one trial to the next.
C30_EvalIteratorBuiltOnceAndCarriedOver ==
  \A sp \in EvalSplits :
    /\ (sp \in DOMAIN _eval_iters) <=> (EvalsOf(sp) # {})
    /\ \A i \in EvalsOf(sp) :
         LET call == workload_log[i]
             earlier == {j \in EvalsOf(sp) : j < i}
         IN  /\ call.built <=> (earlier = {})
             /\ call.last - call.first =
                  (call.num_examples + call.global_batch_size - 1)
                    \div call.global_batch_size
             /\ earlier = {} => call.first = 0
             /\ \A j \in earlier :
                  (\A k \in earlier : k <= j) =>
                    call.first = workload_log[j].last
    /\ EvalsOf(sp) # {} =>
         \E i \in EvalsOf(sp) :
           /\ \A k \in EvalsOf(sp) : k <= i
           /\ _eval_iters[sp].position = workload_log[i].last

\* a split evaluated in the first trial and again in the second, where the
\* second evaluation starts where the first one stopped
C30_Witness ==
  \E i, j \in 1..Len(workload_log) :
    /\ i < j
    /\ workload_log[i].split = workload_log[j].split
    /\ workload_log[i].trial = 0
    /\ workload_log[j].trial = 1
    /\ workload_log[i].built
    /\ ~workload_log[j].built
    /\ workload_log[j].first = 2
    /\ workload_log[j].last > workload_log[j].first

====
